---- MODULE Spec2Model ----
(***************************************************************************)
(* PtsWaiter (Telegram/SourceFiles/data/data_peer.cpp, lines 1005-1150):   *)
(* the pts gap detection and reordering helper.  The waiter sits between   *)
(* the transport, which calls updated / updateAndApply, and the applier    *)
(* (Auth().api().applyUpdateNoPtsCheck / applyUpdatesNoPtsCheck).          *)
(*                                                                         *)
(* The waiter's fields are the variables written as in the source          *)
(* (_good, _last, _count, ...).  Every method is an operator from a state  *)
(* record (Self) to the state the method leaves, translated statement by   *)
(* statement; an action applies one public method and commits the result.  *)
(* The loop of applySkippedUpdates calls the applier once per queued       *)
(* entry, and the applier may call back into the waiter: the loop is       *)
(* therefore one DrainStep per entry, the calls made from inside the       *)
(* applier (Nested...) happen between two steps, and DrainEnd is the code  *)
(* after the loop.  No top-level call runs while a loop is open: all       *)
(* calls are made on one thread.                                           *)
(***************************************************************************)
EXTENDS Integers, Sequences, FiniteSets, TLC

\* Bounds of the model.
MaxPts == 3
MaxIngest == 3

\* The gap timeout passed to setWaitingForSkipped by check (line 1147).
WaitForSkippedTimeout == 1000

\* The inputs: pts of an update, and the number of pts slots it takes: none,
\* one, several.
PtsValues == 1..MaxPts
CountValues == {0, 1, 2}
\* The delays a caller passes to setWaitingForShortPoll: negative cancels,
\* non-negative arms.
DelayValues == {-1, 0}

\* enum PtsSkippedQueue
SkippedUpdate == "SkippedUpdate"
SkippedUpdates == "SkippedUpdates"
QueueKinds == {SkippedUpdate, SkippedUpdates}

VARIABLES
  _good, _last, _count,          \* int32 watermark, high-water mark, count sum
  initialized,                   \* inited()
  _requesting,
  _waitingForSkipped, _waitingForShortPoll,
  _queue,                        \* QMap<uint64, PtsSkippedQueue>
  _updateQueue, _updatesQueue,   \* QMap<uint64, MTPUpdate / MTPUpdates>
  _skippedKey,                   \* uint32 insertion counter
  _applySkippedLevel,
  appMain,                       \* App::main() is not null
  timer,                         \* last delay given to ptsWaiterStartTimerFor
  iters,                         \* open applySkippedUpdates loops: their iterators
  applied,                       \* the applier's calls, in order
  calls                          \* the ingest calls so far, in order

vars == <<_good, _last, _count, initialized, _requesting, _waitingForSkipped,
          _waitingForShortPoll, _queue, _updateQueue, _updatesQueue,
          _skippedKey, _applySkippedLevel, appMain, timer, iters, applied,
          calls>>

Max(a, b) == IF a >= b THEN a ELSE b

\* uint32(x) < uint32(y) for int32 x and y: the cast makes a negative number
\* larger than every non-negative one and keeps the order among the negative.
UnsignedLess(x, y) == IF (x < 0) = (y < 0) THEN x < y ELSE y < 0

\* A QMap key uint64(uint32(pts)) << 32 | skippedKey is the pair <<pts, skippedKey>>
\* compared as the 64-bit number is: high word uint32(pts) first, then low word.
KeyLess(a, b) == UnsignedLess(a[1], b[1]) \/ (a[1] = b[1] /\ a[2] < b[2])

\* The iterator before cbegin().
NoKey == <<0, 0>>

\* QMap::value(key) of a missing key is a default-constructed payload.
NoPayload == [id |-> 0, pts |-> 0, count |-> 0]

EmptyMap == <<>>

\* The waiter (and the two services it calls) as one record.
Self ==
  [good |-> _good, last |-> _last, count |-> _count, inited |-> initialized,
   requesting |-> _requesting,
   waitingForSkipped |-> _waitingForSkipped,
   waitingForShortPoll |-> _waitingForShortPoll,
   queue |-> _queue, updateQueue |-> _updateQueue, updatesQueue |-> _updatesQueue,
   skippedKey |-> _skippedKey, level |-> _applySkippedLevel,
   main |-> appMain, timer |-> timer, iters |-> iters, applied |-> applied]

Commit(s) ==
  /\ _good' = s.good
  /\ _last' = s.last
  /\ _count' = s.count
  /\ initialized' = s.inited
  /\ _requesting' = s.requesting
  /\ _waitingForSkipped' = s.waitingForSkipped
  /\ _waitingForShortPoll' = s.waitingForShortPoll
  /\ _queue' = s.queue
  /\ _updateQueue' = s.updateQueue
  /\ _updatesQueue' = s.updatesQueue
  /\ _skippedKey' = s.skippedKey
  /\ _applySkippedLevel' = s.level
  /\ appMain' = s.main
  /\ timer' = s.timer
  /\ iters' = s.iters
  /\ applied' = s.applied

\* App::main()->ptsWaiterStartTimerFor(channel, ms)
ptsWaiterStartTimerFor(s, ms) == [s EXCEPT !.timer = ms]

\* Auth().api().applyUpdateNoPtsCheck(update) / applyUpdatesNoPtsCheck(updates):
\* one call of the applier. key is the queue key the payload was read under
\* (NoKey: applied without the queue), level is _applySkippedLevel at the call,
\* nested says that the call is made while a loop's applier call is running.
applyNoPtsCheck(s, kind, payload, key) ==
  [s EXCEPT !.applied = Append(@, [id |-> payload.id, pts |-> payload.pts,
                                   count |-> payload.count, kind |-> kind,
                                   key |-> key, level |-> s.level,
                                   nested |-> (key = NoKey /\ s.iters # <<>>)])]

inited(s) == s.inited

\* The timer service is reached through App::main(), and only when there is one.
checkForWaiting(s) ==
  IF ~s.waitingForSkipped /\ ~s.waitingForShortPoll /\ s.main
    THEN ptsWaiterStartTimerFor(s, -1)
    ELSE s

setWaitingForSkipped(s, ms) ==
  IF ms >= 0
    THEN [(IF s.main THEN ptsWaiterStartTimerFor(s, ms) ELSE s)
            EXCEPT !.waitingForSkipped = TRUE]
    ELSE checkForWaiting([s EXCEPT !.waitingForSkipped = FALSE])

setWaitingForShortPoll(s, ms) ==
  IF ms >= 0
    THEN [(IF s.main THEN ptsWaiterStartTimerFor(s, ms) ELSE s)
            EXCEPT !.waitingForShortPoll = TRUE]
    ELSE checkForWaiting([s EXCEPT !.waitingForShortPoll = FALSE])

\* clearSkippedUpdates that forgets one of the payload maps.
clearSkippedUpdates_keepsPayloads(s) ==
  [s EXCEPT !.queue = EmptyMap, !.updatesQueue = EmptyMap, !.level = 0]

clearSkippedUpdates(s) ==
  [s EXCEPT !.queue = EmptyMap, !.updateQueue = EmptyMap,
            !.updatesQueue = EmptyMap, !.level = 0]

\* init(pts): the baseline. _good = _last = _count = pts, so that the first
\* update after it, with pts = baseline + count, makes _count reach _last.
init(s, pts) ==
  clearSkippedUpdates([s EXCEPT !.good = pts, !.last = pts, !.count = pts,
                                !.inited = TRUE])

setRequesting(s, isRequesting) ==
  IF isRequesting
    THEN clearSkippedUpdates([s EXCEPT !.requesting = TRUE])
    ELSE [s EXCEPT !.requesting = FALSE]

\* ptsKey that leaves pts out of the key: the queue is in arrival order.
ptsKey_arrivalOnly(s, kind, pts) ==
  LET k == <<0, s.skippedKey + 1>>
  IN [s |-> [s EXCEPT !.skippedKey = @ + 1, !.queue = (k :> kind) @@ @],
      key |-> k]

\* ptsKey whose low word counts down: among equal pts the last comes first.
ptsKey_countingDown(s, kind, pts) ==
  LET k == <<pts, WaitForSkippedTimeout - s.skippedKey>>
  IN [s |-> [s EXCEPT !.skippedKey = @ + 1, !.queue = (k :> kind) @@ @],
      key |-> k]

\* ptsKey: ++_skippedKey, insert the key into _queue, return it. The counter is
\* a uint32 and wraps after 2^32 insertions, which no run of the model reaches.
ptsKey(s, kind, pts) ==
  LET k == <<pts, s.skippedKey + 1>>
  IN [s |-> [s EXCEPT !.skippedKey = @ + 1, !.queue = (k :> kind) @@ @],
      key |-> k]

\* check without the baseline: the first update is summed like any other.
check_noBaseline(s, pts, count) ==
  LET s1 == [s EXCEPT !.last = Max(@, pts), !.count = @ + count]
  IN IF s1.last = s1.count
       THEN [s |-> [s1 EXCEPT !.good = s1.last], ok |-> TRUE]
       ELSE IF s1.last < s1.count
         THEN [s |-> setWaitingForSkipped(s1, 1), ok |-> (count = 0)]
         ELSE [s |-> setWaitingForSkipped(s1, WaitForSkippedTimeout),
               ok |-> (count = 0)]

\* check that finds the sums equal and leaves the watermark where it was.
check_keepsWatermark(s, pts, count) ==
  IF ~inited(s)
    THEN [s |-> init(s, pts), ok |-> TRUE]
    ELSE LET s1 == [s EXCEPT !.last = Max(@, pts), !.count = @ + count]
         IN IF s1.last = s1.count
              THEN [s |-> s1, ok |-> TRUE]
              ELSE IF s1.last < s1.count
                THEN [s |-> setWaitingForSkipped(s1, 1), ok |-> (count = 0)]
                ELSE [s |-> setWaitingForSkipped(s1, WaitForSkippedTimeout),
                      ok |-> (count = 0)]

\* check that takes the pts of the update for _last, without qMax.
check_lastNotMax(s, pts, count) ==
  IF ~inited(s)
    THEN [s |-> init(s, pts), ok |-> TRUE]
    ELSE LET s1 == [s EXCEPT !.last = pts, !.count = @ + count]
         IN IF s1.last = s1.count
              THEN [s |-> [s1 EXCEPT !.good = s1.last], ok |-> TRUE]
              ELSE IF s1.last < s1.count
                THEN [s |-> setWaitingForSkipped(s1, 1), ok |-> (count = 0)]
                ELSE [s |-> setWaitingForSkipped(s1, WaitForSkippedTimeout),
                      ok |-> (count = 0)]

\* check: TRUE when the update is to be applied now, FALSE when it is to be
\* saved and applied later.
check(s, pts, count) ==
  IF ~inited(s)
    THEN [s |-> init(s, pts), ok |-> TRUE]
    ELSE LET s1 == [s EXCEPT !.last = Max(@, pts), !.count = @ + count]
         IN IF s1.last = s1.count
              THEN [s |-> [s1 EXCEPT !.good = s1.last], ok |-> TRUE]
              ELSE IF s1.last < s1.count
                THEN [s |-> setWaitingForSkipped(s1, 1), ok |-> (count = 0)]
                ELSE [s |-> setWaitingForSkipped(s1, WaitForSkippedTimeout),
                      ok |-> (count = 0)]

\* The insert that puts every payload into _updateQueue, whatever its kind.
enqueue_oneMap(s, kind, pts, payload) ==
  LET k == ptsKey(s, kind, pts)
  IN [k.s EXCEPT !.updateQueue = (k.key :> payload) @@ @]

\* _updateQueue.insert(ptsKey(SkippedUpdate, pts), update) and its MTPUpdates twin.
enqueue(s, kind, pts, payload) ==
  LET k == ptsKey(s, kind, pts)
  IN IF kind = SkippedUpdate
       THEN [k.s EXCEPT !.updateQueue = (k.key :> payload) @@ @]
       ELSE [k.s EXCEPT !.updatesQueue = (k.key :> payload) @@ @]

\* updated that lets an update at the watermark through (pts < _good).
updated_belowWatermarkOnly(s, pts, count, kind, payload) ==
  IF s.requesting \/ s.level # 0
    THEN [s |-> s, ok |-> TRUE]
    ELSE IF pts < s.good /\ count > 0
      THEN [s |-> s, ok |-> FALSE]
      ELSE LET c == check(s, pts, count)
           IN IF c.ok THEN c
                      ELSE [s |-> enqueue(c.s, kind, pts, payload), ok |-> FALSE]

\* updated without the _applySkippedLevel guard.
updated_noLevelGuard(s, pts, count, kind, payload) ==
  IF s.requesting
    THEN [s |-> s, ok |-> TRUE]
    ELSE IF pts <= s.good /\ count > 0
      THEN [s |-> s, ok |-> FALSE]
      ELSE LET c == check(s, pts, count)
           IN IF c.ok THEN c
                      ELSE [s |-> enqueue(c.s, kind, pts, payload), ok |-> FALSE]

\* updated(channel, pts, count, update) and updated(channel, pts, count, updates)
updated(s, pts, count, kind, payload) ==
  IF s.requesting \/ s.level # 0
    THEN [s |-> s, ok |-> TRUE]
    ELSE IF pts <= s.good /\ count > 0
      THEN [s |-> s, ok |-> FALSE]
      ELSE LET c == check(s, pts, count)
           IN IF c.ok THEN c
                      ELSE [s |-> enqueue(c.s, kind, pts, payload), ok |-> FALSE]

\* updated(channel, pts, count): the overload without a payload. It has the
\* same guards and returns what check returns; there is nothing to insert.
updatedNoPayload(s, pts, count) ==
  IF s.requesting \/ s.level # 0
    THEN [s |-> s, ok |-> TRUE]
    ELSE IF pts <= s.good /\ count > 0
      THEN [s |-> s, ok |-> FALSE]
      ELSE check(s, pts, count)

\* applySkippedUpdates that does not look at _waitingForSkipped first.
applySkippedUpdates_noRecheck(s) ==
  LET s1 == setWaitingForSkipped(s, -1)
  IN IF DOMAIN s1.queue = {}
       THEN s1
       ELSE [s1 EXCEPT !.level = @ + 1, !.iters = Append(@, NoKey)]

\* applySkippedUpdates up to its loop: the loop runs in DrainStep / DrainEnd.
applySkippedUpdates(s) ==
  IF ~s.waitingForSkipped
    THEN s
    ELSE LET s1 == setWaitingForSkipped(s, -1)
         IN IF DOMAIN s1.queue = {}
              THEN s1
              ELSE [s1 EXCEPT !.level = @ + 1, !.iters = Append(@, NoKey)]

\* updateAndApply(channel, pts, count, update / updates)
updateAndApply(s, pts, count, kind, payload) ==
  LET u == updated(s, pts, count, kind, payload)
  IN IF ~u.ok
       THEN u
       ELSE IF ~u.s.waitingForSkipped \/ DOMAIN u.s.queue = {}
         THEN [s |-> applyNoPtsCheck(u.s, kind, payload, NoKey), ok |-> TRUE]
         ELSE [s |-> applySkippedUpdates(enqueue(u.s, kind, pts, payload)),
               ok |-> TRUE]

\* updateAndApply(channel, pts, count): the overload without a payload. It
\* applies nothing itself and calls applySkippedUpdates whenever updated
\* returns true.
updateAndApplyNoPayload(s, pts, count) ==
  LET u == updatedNoPayload(s, pts, count)
  IN IF ~u.ok
       THEN u
       ELSE [s |-> applySkippedUpdates(u.s), ok |-> TRUE]

\* The keys of _queue after iterator position it, and the one ++i reaches.
KeysAfter(s, it) == {k \in DOMAIN s.queue : KeyLess(it, k)}
NextKey(s, it) ==
  CHOOSE k \in KeysAfter(s, it) : \A j \in KeysAfter(s, it) : j = k \/ KeyLess(k, j)

\* One pass of the loop body of applySkippedUpdates (lines 1047-1052).
drainStep(s) ==
  LET it == s.iters[Len(s.iters)]
      k == NextKey(s, it)
      s1 == [s EXCEPT !.iters[Len(s.iters)] = k]
  IN IF s.queue[k] = SkippedUpdate
       THEN applyNoPtsCheck(s1, SkippedUpdate,
              IF k \in DOMAIN s.updateQueue THEN s.updateQueue[k] ELSE NoPayload, k)
       ELSE applyNoPtsCheck(s1, SkippedUpdates,
              IF k \in DOMAIN s.updatesQueue THEN s.updatesQueue[k] ELSE NoPayload, k)

\* The code after the loop (lines 1053-1054).
drainEnd(s) ==
  clearSkippedUpdates([s EXCEPT !.level = @ - 1,
                                !.iters = SubSeq(@, 1, Len(@) - 1)])

----------------------------------------------------------------------------
(***************************************************************************)
(* The calls.  calls records every ingest: its arguments, what it          *)
(* returned, the waiter before the call (pre) and after the call's own     *)
(* statements (post), the queue key its payload got, and how many applier  *)
(* calls came before it.                                                   *)
(***************************************************************************)

Idle == iters = <<>>
\* An applier call made by the innermost open loop is in progress.
InCallback == iters # <<>> /\ iters[Len(iters)] # NoKey

\* The payloads state s holds in its two payload maps, by id.
Held(s) ==
  {s.updateQueue[k].id : k \in DOMAIN s.updateQueue}
  \cup {s.updatesQueue[k].id : k \in DOMAIN s.updatesQueue}

\* What calls keeps of a state.
Snapshot(s) ==
  [good |-> s.good, last |-> s.last, count |-> s.count, inited |-> s.inited,
   requesting |-> s.requesting, waitingForSkipped |-> s.waitingForSkipped,
   level |-> s.level, held |-> Held(s)]

Payload(pts, count) == [id |-> Len(calls) + 1, pts |-> pts, count |-> count]

\* The key under which state s holds payload id (NoKey: it holds it nowhere).
KeyOf(s, id) ==
  LET ks == {k \in DOMAIN s.updateQueue : s.updateQueue[k].id = id}
            \cup {k \in DOMAIN s.updatesQueue : s.updatesQueue[k].id = id}
  IN IF ks = {} THEN NoKey ELSE CHOOSE k \in ks : TRUE

Call(op, pts, count, kind, r) ==
  [op |-> op, pts |-> pts, count |-> count, kind |-> kind, ok |-> r.ok,
   nested |-> ~Idle, pre |-> Snapshot(Self), post |-> Snapshot(r.s),
   key |-> KeyOf(r.s, Len(calls) + 1), from |-> Len(applied)]

Init ==
  /\ _good = 0 /\ _last = 0 /\ _count = 0
  /\ initialized = FALSE
  /\ _requesting = FALSE
  /\ _waitingForSkipped = FALSE /\ _waitingForShortPoll = FALSE
  /\ _queue = EmptyMap /\ _updateQueue = EmptyMap /\ _updatesQueue = EmptyMap
  /\ _skippedKey = 0
  /\ _applySkippedLevel = 0
  /\ appMain \in BOOLEAN
  /\ timer = -1
  /\ iters = <<>>
  /\ applied = <<>>
  /\ calls = <<>>

\* The transport delivers an update or a batch: updateAndApply.
UpdateAndApply(pts, count, kind) ==
  /\ Idle
  /\ Len(calls) < MaxIngest
  /\ LET r == updateAndApply(Self, pts, count, kind, Payload(pts, count))
     IN /\ Commit(r.s)
        /\ calls' = Append(calls, Call("updateAndApply", pts, count, kind, r))

\* The transport delivers an update that the caller applies itself when told
\* to: updated.
Updated(pts, count, kind) ==
  /\ Idle
  /\ Len(calls) < MaxIngest
  /\ LET r == updated(Self, pts, count, kind, Payload(pts, count))
     IN /\ Commit(r.s)
        /\ calls' = Append(calls, Call("updated", pts, count, kind, r))

\* The waiter constructed in a running application: there is an App::main().
InitMain == Init /\ appMain

\* The kind of a call that carries no payload.
NoQueue == "NoPayload"

\* The transport reports an update that has pts and count and nothing to
\* apply: the overloads without a payload. (Called from inside the applier
\* during a loop they return true and change nothing.)
UpdateAndApplyNoPayload(pts, count) ==
  /\ Idle
  /\ Len(calls) < MaxIngest
  /\ LET r == updateAndApplyNoPayload(Self, pts, count)
     IN /\ Commit(r.s)
        /\ calls' = Append(calls, Call("updateAndApplyNoPayload", pts, count, NoQueue, r))

UpdatedNoPayload(pts, count) ==
  /\ Idle
  /\ Len(calls) < MaxIngest
  /\ LET r == updatedNoPayload(Self, pts, count)
     IN /\ Commit(r.s)
        /\ calls' = Append(calls, Call("updatedNoPayload", pts, count, NoQueue, r))

\* A timer fires, or a caller asks for the flush: applySkippedUpdates.
ApplySkippedUpdates ==
  /\ Idle
  /\ Commit(applySkippedUpdates(Self))
  /\ UNCHANGED calls

\* A caller cancels the wait for skipped updates: setWaitingForSkipped(-1).
CancelWaitingForSkipped ==
  /\ Idle
  /\ Commit(setWaitingForSkipped(Self, -1))
  /\ UNCHANGED calls

\* A caller starts (ms >= 0) or cancels (ms < 0) the short poll wait.
SetWaitingForShortPoll(ms) ==
  /\ Idle
  /\ Commit(setWaitingForShortPoll(Self, ms))
  /\ UNCHANGED calls

ClearSkippedUpdates ==
  /\ Idle
  /\ Commit(clearSkippedUpdates(Self))
  /\ UNCHANGED calls

\* A caller starts or ends a difference request.
SetRequesting(isRequesting) ==
  /\ Idle
  /\ _requesting # isRequesting
  /\ Commit(setRequesting(Self, isRequesting))
  /\ UNCHANGED calls

\* The loop of the innermost open applySkippedUpdates applies its next entry.
DrainStep ==
  /\ ~Idle
  /\ KeysAfter(Self, iters[Len(iters)]) # {}
  /\ Commit(drainStep(Self))
  /\ UNCHANGED calls

\* The loop is over: --_applySkippedLevel; clearSkippedUpdates().
DrainEnd ==
  /\ ~Idle
  /\ KeysAfter(Self, iters[Len(iters)]) = {}
  /\ Commit(drainEnd(Self))
  /\ UNCHANGED calls

\* The applier, while applying a queued entry, feeds another update in.
NestedUpdateAndApply(pts, count, kind) ==
  /\ InCallback
  /\ Len(calls) < MaxIngest
  /\ LET r == updateAndApply(Self, pts, count, kind, Payload(pts, count))
     IN /\ Commit(r.s)
        /\ calls' = Append(calls, Call("updateAndApply", pts, count, kind, r))

\* The applier, while applying a queued entry, asks for a flush.
NestedApplySkippedUpdates ==
  /\ InCallback
  /\ Commit(applySkippedUpdates(Self))
  /\ UNCHANGED calls

\* The waiter and its transport: updates and batches arrive, the timer fires,
\* a caller cancels the wait, the applier calls back.
\* The timer's delay is written and never read by the waiter, so that whether
\* there is an App::main() changes nothing but timer: Spec, SpecRequesting and
\* SpecBoundary start with one, SpecUpdated and SpecPoll with or without.
Next ==
  \/ \E pts \in PtsValues, count \in CountValues, kind \in QueueKinds :
       UpdateAndApply(pts, count, kind)
  \/ ApplySkippedUpdates
  \/ CancelWaitingForSkipped
  \/ DrainStep
  \/ DrainEnd
  \/ \E pts \in PtsValues, count \in CountValues :
       NestedUpdateAndApply(pts, count, SkippedUpdate)
  \/ NestedApplySkippedUpdates

Spec == InitMain /\ [][Next]_vars

\* The same with the entry point that only buffers, updated, the overloads
\* without a payload, and the reset.
NextUpdated ==
  \/ Next
  \/ ClearSkippedUpdates
  \/ \E pts \in PtsValues, count \in CountValues :
       Updated(pts, count, SkippedUpdate)
  \/ \E pts \in PtsValues, count \in CountValues :
       UpdateAndApplyNoPayload(pts, count)
  \/ \E pts \in PtsValues, count \in CountValues :
       UpdatedNoPayload(pts, count)

SpecUpdated == Init /\ [][NextUpdated]_vars

\* The waiter of a channel: its callers also start and cancel the short poll
\* wait.
NextPoll ==
  \/ \E pts \in PtsValues, count \in CountValues :
       UpdateAndApply(pts, count, SkippedUpdate)
  \/ ApplySkippedUpdates
  \/ CancelWaitingForSkipped
  \/ \E ms \in DelayValues : SetWaitingForShortPoll(ms)
  \/ ClearSkippedUpdates
  \/ DrainStep
  \/ DrainEnd
  \/ \E pts \in PtsValues, count \in CountValues :
       NestedUpdateAndApply(pts, count, SkippedUpdate)
  \/ NestedApplySkippedUpdates

SpecPoll == Init /\ [][NextPoll]_vars

\* The waiter whose caller starts and ends difference requests.
NextRequesting ==
  \/ \E pts \in PtsValues, count \in CountValues :
       UpdateAndApply(pts, count, SkippedUpdate)
  \/ ApplySkippedUpdates
  \/ CancelWaitingForSkipped
  \/ \E b \in BOOLEAN : SetRequesting(b)
  \/ DrainStep
  \/ DrainEnd
  \/ \E pts \in PtsValues, count \in CountValues :
       NestedUpdateAndApply(pts, count, SkippedUpdate)
  \/ NestedApplySkippedUpdates

SpecRequesting == InitMain /\ [][NextRequesting]_vars

\* The transport at the edge of the domain of its arguments: pts and count are
\* int32, so a pts may be 0 or negative and a count may be negative.
BoundaryPtsValues == (-1)..(MaxPts - 2)
BoundaryCountValues == {-1, 0, 1}

NextBoundary ==
  \/ \E pts \in BoundaryPtsValues, count \in BoundaryCountValues :
       UpdateAndApply(pts, count, SkippedUpdate)
  \/ ApplySkippedUpdates
  \/ \E b \in BOOLEAN : SetRequesting(b)
  \/ DrainStep
  \/ DrainEnd

SpecBoundary == InitMain /\ [][NextBoundary]_vars

----------------------------------------------------------------------------
(***************************************************************************)
(* The claims.                                                             *)
(***************************************************************************)

AppliedIds == {applied[n].id : n \in DOMAIN applied}

\* Where the applier first got payload id (0: nowhere).
Pos(id) ==
  IF id \in AppliedIds
    THEN CHOOSE n \in DOMAIN applied :
           applied[n].id = id /\ \A m \in DOMAIN applied : applied[m].id = id => n <= m
    ELSE 0

\* The call is an ingest of an update at or below the watermark that takes slots.
IsDuplicate(c) == c.pts <= c.pre.good /\ c.count > 0

\* C1: the payloads handed to the applier form a sequence with ascending pts,
\* and no applier call starts while another is in progress. Stated in the form
\* most favourable to the code: only the payloads that take slots (count > 0)
\* are compared, two of equal pts (a tie, an update delivered twice) pass, and
\* so does a payload the applier itself fed in while applying another, which
\* is applied in-line; the second half asks only that no second loop opens.
\* What is refuted is a payload applied after one of higher pts.
C1_AscendingNeverConcurrent ==
  /\ \A m, n \in DOMAIN applied :
       (/\ m < n
        /\ applied[m].count > 0 /\ applied[n].count > 0
        /\ ~applied[m].nested /\ ~applied[n].nested)
         => applied[m].pts <= applied[n].pts
  /\ Len(iters) <= 1

\* C2: the applier is never called twice for the same update (same pts,
\* count > 0), whatever the transport delivers again.
C2_NeverAppliedTwice ==
  \A m, n \in DOMAIN applied :
    (m # n /\ applied[m].count > 0 /\ applied[n].count > 0)
      => applied[m].pts # applied[n].pts

\* C3 as stated: no ingest with pts <= _good and count > 0 ever reaches the
\* applier, a flush in progress or a difference request outstanding included.
C3_DuplicateNeverApplied ==
  \A i \in DOMAIN calls : IsDuplicate(calls[i]) => i \notin AppliedIds

\* C3 as amended: an ingest with pts <= _good and count > 0 made while no flush
\* is in progress (_applySkippedLevel = 0) and no difference request is
\* outstanding (_requesting false) returns false, changes nothing and never
\* reaches the applier.
C3_DuplicateDiscarded ==
  \A i \in DOMAIN calls :
    (IsDuplicate(calls[i]) /\ calls[i].pre.level = 0 /\ ~calls[i].pre.requesting)
      => /\ ~calls[i].ok
         /\ calls[i].post = calls[i].pre
         /\ calls[i].key = NoKey
         /\ i \notin AppliedIds

\* A duplicate was ingested outside a flush and a request, after the watermark
\* had advanced past the baseline.
C3_Witness ==
  \E i \in DOMAIN calls :
    /\ IsDuplicate(calls[i]) /\ calls[i].pre.level = 0 /\ ~calls[i].pre.requesting
    /\ calls[1].pts < calls[i].pre.good

\* The baseline: the first ingest finds the waiter not inited.
Baseline == calls[1].pts

\* The pts slots an update takes: pts - count + 1 .. pts.
Slots(pts, count) == (pts - count + 1)..pts

\* The ingests so far are updates of one contiguous stream that starts at the
\* baseline: each takes slots above it, and two of them are the same update
\* delivered twice or take different slots.
FromOneStream ==
  \A i, j \in 2..Len(calls) :
    (calls[i].count > 0 /\ calls[j].count > 0)
      => /\ calls[i].pts - calls[i].count >= Baseline
         /\ \/ (calls[i].pts = calls[j].pts /\ calls[i].count = calls[j].count)
            \/ Slots(calls[i].pts, calls[i].count)
                 \cap Slots(calls[j].pts, calls[j].count) = {}

\* The slot belongs to an update that was ingested after the baseline.
SlotIngested(slot) ==
  \E i \in 2..Len(calls) :
    calls[i].count > 0 /\ slot \in Slots(calls[i].pts, calls[i].count)

\* C4: when _good = v, every update of the stream with baseline < pts <= v has
\* been ingested and applied. Stated in the form most favourable to the code,
\* for the ingestion alone: the watermark is never past an update that is
\* still missing.
C4_WatermarkSound ==
  (calls # <<>> /\ FromOneStream)
    => \A slot \in (Baseline + 1).._good : SlotIngested(slot)

\* C5: no call returns with _good = _last and payloads left in the queue.
C5_NoStrandedPayload ==
  (Idle /\ initialized /\ _good = _last) => DOMAIN _queue = {}

\* Calls i and j are the scenario of C6: i is an updateAndApply that finds the
\* waiter as a baseline b leaves it (_good = _last = _count = b, nothing
\* buffered) and jumps ahead, pts = b + c1 + c2 with count c2; j is the next
\* ingest, finds the waiter as i left it, and is the missing update,
\* pts = b + c1 with count c1.
GapThenFill(i, j) ==
  /\ j = i + 1
  /\ calls[j].pre = calls[i].post
  /\ calls[i].op = "updateAndApply" /\ calls[j].op = "updateAndApply"
  /\ ~calls[i].nested /\ ~calls[j].nested
  /\ calls[i].pre.inited /\ ~calls[i].pre.requesting
  /\ calls[i].pre.held = {}
  /\ calls[i].pre.good = calls[i].pre.last
  /\ calls[i].pre.last = calls[i].pre.count
  /\ calls[i].count > 0 /\ calls[j].count > 0
  /\ calls[j].pts = calls[i].pre.good + calls[j].count
  /\ calls[i].pts = calls[j].pts + calls[i].count

\* C6: the jump returns false and is buffered, not applied; the fill returns
\* true, its payload is the first its call applies, and the buffered payload
\* is applied after it before that call is over (between the two, only what
\* the applier itself fed in).
C6_GapThenFill ==
  \A i, j \in DOMAIN calls :
    GapThenFill(i, j)
      => /\ ~calls[i].ok /\ calls[i].key # NoKey
         /\ Pos(i) = 0 \/ Pos(i) > calls[j].from
         /\ calls[j].ok
         /\ Pos(j) # 0 => Pos(j) = calls[j].from + 1
         /\ Pos(i) # 0 => (Pos(j) # 0 /\ Pos(j) < Pos(i))
         /\ Idle => /\ Pos(j) # 0 /\ Pos(i) # 0
                    /\ \A n \in (Pos(j) + 1)..(Pos(i) - 1) : applied[n].nested

\* The fill's call is over and has applied both payloads.
C6_Witness ==
  \E i, j \in DOMAIN calls :
    GapThenFill(i, j) /\ Idle /\ Pos(j) # 0 /\ Pos(j) < Pos(i)

\* C7: no two buffered payloads ever get the same key; a loop applies the
\* entries of the queue in strictly ascending key order and skips none; two
\* buffered entries of equal pts, updates or batches, are applied in the order
\* of their ingestion.
C7_TieBreakOrdering ==
  /\ \A i, j \in DOMAIN calls :
       (i # j /\ calls[i].key # NoKey /\ calls[j].key # NoKey)
         => calls[i].key # calls[j].key
  /\ \A m, n \in DOMAIN applied :
       (m < n /\ applied[m].key \in DOMAIN _queue /\ applied[n].key \in DOMAIN _queue)
         => KeyLess(applied[m].key, applied[n].key)
  /\ ~Idle => {applied[n].key : n \in DOMAIN applied} \cap DOMAIN _queue
                = {k \in DOMAIN _queue : ~KeyLess(iters[Len(iters)], k)}
  /\ \A m, n \in DOMAIN applied :
       (/\ m < n
        /\ applied[m].key # NoKey /\ applied[n].key # NoKey
        /\ applied[m].pts = applied[n].pts)
         => applied[m].id < applied[n].id

\* A loop has applied an update and a batch of the same pts.
C7_Witness ==
  \E m, n \in DOMAIN applied :
    /\ m < n
    /\ applied[m].key # NoKey /\ applied[n].key # NoKey
    /\ applied[m].pts = applied[n].pts
    /\ applied[m].kind # applied[n].kind

\* C8: while a loop is open, a step opens no second loop and, unless it ends
\* the loop, leaves _queue and the payload maps as they are; and an ingest
\* made then returns true and its payload is applied at once, outside the
\* queue.
C8_ReentrancySafe ==
  [][~Idle =>
       /\ Len(iters') <= Len(iters)
       /\ ~Idle' => /\ _queue' = _queue
                    /\ _updateQueue' = _updateQueue
                    /\ _updatesQueue' = _updatesQueue
       /\ Len(calls') > Len(calls) =>
            /\ calls'[Len(calls')].ok
            /\ Len(applied') = Len(applied) + 1
            /\ applied'[Len(applied')].id = Len(calls')
            /\ applied'[Len(applied')].key = NoKey
            /\ applied'[Len(applied')].nested]_vars

\* The applier fed an update in while it applied a queued one; it was applied
\* in-line right after that one, and the loop then came to its end.
C8_Witness ==
  /\ Idle
  /\ \E n \in DOMAIN applied :
       /\ n > 1 /\ applied[n].nested /\ applied[n].level > 0
       /\ applied[n - 1].key # NoKey

\* C9: the loop of applySkippedUpdates runs only with both waiting flags
\* clear: no payload is applied from the queue while _waitingForSkipped or
\* _waitingForShortPoll is set.
C9_FlushOnlyWhenBothClear ==
  ~Idle => (~_waitingForSkipped /\ ~_waitingForShortPoll)

\* C10 as stated: clearSkippedUpdates, called in any state, leaves the queue
\* empty, both waiting flags false and _applySkippedLevel 0, and leaves _good
\* and _last.
C10_ResetClearsFlags ==
  /\ [](LET s == clearSkippedUpdates(Self)
        IN /\ s.queue = EmptyMap /\ s.updateQueue = EmptyMap
           /\ s.updatesQueue = EmptyMap
           /\ ~s.waitingForSkipped /\ ~s.waitingForShortPoll
           /\ s.level = 0
           /\ s.good = _good /\ s.last = _last)
  /\ [][ClearSkippedUpdates =>
          /\ _queue' = EmptyMap /\ _updateQueue' = EmptyMap
          /\ _updatesQueue' = EmptyMap
          /\ ~_waitingForSkipped' /\ ~_waitingForShortPoll'
          /\ _applySkippedLevel' = 0
          /\ _good' = _good /\ _last' = _last]_vars

\* C10 as amended: clearSkippedUpdates, called in any state, leaves the queue
\* empty and _applySkippedLevel 0, and leaves _good, _last and both waiting
\* flags as they were.
C10_ResetKeepsFlags ==
  /\ [](LET s == clearSkippedUpdates(Self)
        IN /\ s.queue = EmptyMap /\ s.updateQueue = EmptyMap
           /\ s.updatesQueue = EmptyMap
           /\ s.level = 0
           /\ s.waitingForSkipped = _waitingForSkipped
           /\ s.waitingForShortPoll = _waitingForShortPoll
           /\ s.good = _good /\ s.last = _last)
  /\ [][ClearSkippedUpdates =>
          /\ _queue' = EmptyMap /\ _updateQueue' = EmptyMap
          /\ _updatesQueue' = EmptyMap
          /\ _applySkippedLevel' = 0
          /\ _waitingForSkipped' = _waitingForSkipped
          /\ _waitingForShortPoll' = _waitingForShortPoll
          /\ _good' = _good /\ _last' = _last]_vars

\* clearSkippedUpdates has dropped a buffered payload: it got a key, no loop
\* is open, the queue is empty and the applier never got it; and both flags
\* are still set.
C10_Witness ==
  /\ Idle /\ DOMAIN _queue = {}
  /\ _waitingForSkipped /\ _waitingForShortPoll
  /\ \E i \in DOMAIN calls : calls[i].key # NoKey /\ i \notin AppliedIds

\* C11: an ingest with a negative count is rejected: it returns false, is
\* neither applied nor buffered and leaves _count, _last, _good, the waiting
\* flag and the queue as they were. (Stated for the ingests made on an
\* initialized waiter with no request outstanding, where the count enters the
\* checksum.)
C11_NegativeCountRejected ==
  \A i \in DOMAIN calls :
    (calls[i].count < 0 /\ calls[i].pre.inited /\ ~calls[i].pre.requesting)
      => /\ ~calls[i].ok
         /\ calls[i].key = NoKey
         /\ calls[i].post = calls[i].pre
         /\ i \notin AppliedIds

\* The step is an ingest, and Baselined says what a baseline at its pts is:
\* the call returns true, the payload is applied and not buffered, _good and
\* _last are its pts, the waiter is initialized and the timer is left alone.
IsIngest == Len(calls') = Len(calls) + 1
Baselined ==
  LET c == calls'[Len(calls')]
  IN /\ c.ok /\ c.key = NoKey
     /\ Len(applied') = Len(applied) + 1
     /\ applied'[Len(applied')].id = Len(calls')
     /\ initialized'
     /\ _good' = c.pts /\ _last' = c.pts
     /\ timer' = timer
     /\ _queue' = _queue

\* C12 as stated: every ingest on an uninitialized waiter, whatever its pts
\* and count, establishes the baseline.
C12_FirstIngestIsBaseline ==
  [][(IsIngest /\ ~initialized) => Baselined]_vars

\* C12 as amended: an ingest on an uninitialized waiter establishes the
\* baseline when no request is outstanding and it is not taken for a
\* duplicate, that is unless pts <= _good and count > 0.
C12_FirstCheckedIngestIsBaseline ==
  [][(/\ IsIngest /\ ~initialized
      /\ ~_requesting
      /\ ~(calls'[Len(calls')].pts <= _good /\ calls'[Len(calls')].count > 0))
       => Baselined]_vars

\* A first ingest with a count has established the baseline at its pts.
C12_Witness ==
  /\ Len(calls) = 1
  /\ ~calls[1].pre.inited /\ calls[1].count > 0
  /\ initialized /\ _good = calls[1].pts /\ _last = calls[1].pts
  /\ Len(applied) = 1

\* Call c finds an initialized waiter with no gap (_good = _last = _count,
\* nothing buffered) and is the next update of the stream: pts = _good + count,
\* and its count makes _count reach _last.
ContiguousIngest(c) ==
  /\ c.op = "updateAndApply"
  /\ c.pre.inited
  /\ c.pre.held = {}
  /\ c.pre.good = c.pre.last /\ c.pre.last = c.pre.count
  /\ c.pts = c.pre.good + c.count
  /\ Max(c.pre.last, c.pts) = c.pre.count + c.count

\* What C13 says of call i: it returns true, its payload is applied at once,
\* without the queue, and _good is its pts.
AdvancedBy(i) ==
  /\ calls[i].ok /\ calls[i].key = NoKey
  /\ Pos(i) = calls[i].from + 1
  /\ applied[Pos(i)].key = NoKey
  /\ calls[i].post.good = calls[i].pts
  /\ calls[i].post.last = calls[i].pts /\ calls[i].post.count = calls[i].pts

\* C13 as stated: every contiguous ingest advances the watermark.
C13_ContiguousAdvance ==
  \A i \in DOMAIN calls : ContiguousIngest(calls[i]) => AdvancedBy(i)

\* C13 as amended: a contiguous ingest made while no loop of
\* applySkippedUpdates is open and no request is outstanding advances the
\* watermark; one made during a loop or a request is applied at once and
\* leaves the waiter as it was.
C13_CheckedContiguousAdvance ==
  \A i \in DOMAIN calls :
    ContiguousIngest(calls[i])
      => IF calls[i].pre.level = 0 /\ ~calls[i].pre.requesting
           THEN AdvancedBy(i)
           ELSE /\ calls[i].ok /\ calls[i].key = NoKey
                /\ Pos(i) = calls[i].from + 1
                /\ calls[i].post = calls[i].pre

\* An update that takes slots has advanced the watermark past the baseline.
C13_Witness ==
  \E i \in DOMAIN calls :
    /\ ContiguousIngest(calls[i]) /\ calls[i].count > 0
    /\ calls[i].pre.level = 0 /\ ~calls[i].pre.requesting
    /\ _good = calls[i].pts /\ i \in AppliedIds

\* C14: in every reachable state _good <= _last.
C14_ConfirmedAtMostLastSeen == _good <= _last

\* The watermark was behind _last, an ingest closed the gap and the watermark
\* is at _last again, above where it was.
C14_Witness ==
  /\ initialized /\ _good = _last
  /\ \E i \in DOMAIN calls :
       /\ calls[i].pre.inited /\ calls[i].pre.good < calls[i].pre.last
       /\ calls[i].post.good = calls[i].post.last

\* C15: buffered payloads reach the applier only through a loop of
\* applySkippedUpdates, and an ingest opens that loop only when it leaves
\* _last = _count; any other loop is opened by applySkippedUpdates called on
\* its own (the timer, a caller). An ingest that leaves the gap open, one
\* with count = 0 included, applies nothing that was buffered.
C15_HeldUntilContiguous ==
  [][/\ (IsIngest /\ Len(iters') > Len(iters)) => _last' = _count'
     /\ (IsIngest /\ _last' # _count') =>
          \A n \in (Len(applied) + 1)..Len(applied') : applied'[n].key = NoKey]_vars

\* C16: while _applySkippedLevel > 0 the wait for skipped updates is not set
\* and the timer is not armed, and no step taken then, an ingest made from the
\* applier included, calls the timer service or sets _waitingForSkipped.
C16_NoTimerDuringDrain ==
  /\ [](_applySkippedLevel > 0 => (~_waitingForSkipped /\ timer < 0))
  /\ [][_applySkippedLevel > 0 =>
          (timer' = timer /\ ~_waitingForSkipped')]_vars

\* The applier fed in an update that check would have found to leave a gap,
\* and the loop has ended.
C16_Witness ==
  /\ Idle
  /\ \E i \in DOMAIN calls :
       /\ calls[i].nested /\ calls[i].pre.level > 0
       /\ ~(calls[i].pts <= calls[i].pre.good /\ calls[i].count > 0)
       /\ Max(calls[i].pre.last, calls[i].pts)
            # calls[i].pre.count + calls[i].count

\* C17: applySkippedUpdates called with _waitingForSkipped false changes
\* nothing and applies nothing; and a call leaves _waitingForSkipped false,
\* at its return and, when it runs the loop, all through the loop and at its
\* end, so that a second call right after the first changes nothing.
C17_FlushIdempotent ==
  /\ [](~_waitingForSkipped => applySkippedUpdates(Self) = Self)
  /\ [](LET s1 == applySkippedUpdates(Self)
        IN ~s1.waitingForSkipped /\ applySkippedUpdates(s1) = s1)
  /\ [](~Idle => ~_waitingForSkipped)
  /\ [][(~Idle /\ Idle') => (~_waitingForSkipped' /\ DOMAIN _queue' = {})]_vars

\* A flush has applied what was buffered and is over: the wait is cancelled,
\* the queue is empty, and the timer may still fire.
C17_Witness ==
  /\ Idle /\ ~_waitingForSkipped /\ DOMAIN _queue = {}
  /\ \E n \in DOMAIN applied : applied[n].key # NoKey /\ _good < applied[n].pts

\* C18: the keys of _queue are those of _updateQueue and _updatesQueue, which
\* share none; an entry of kind SkippedUpdate has its payload in _updateQueue
\* and one of kind SkippedUpdates in _updatesQueue, under the same key; so
\* the loop always finds the payload it looks up.
C18_QueueIndexConsistent ==
  /\ DOMAIN _queue = DOMAIN _updateQueue \cup DOMAIN _updatesQueue
  /\ DOMAIN _updateQueue \cap DOMAIN _updatesQueue = {}
  /\ \A k \in DOMAIN _queue :
       /\ _queue[k] \in QueueKinds
       /\ _queue[k] = SkippedUpdate => k \in DOMAIN _updateQueue
       /\ _queue[k] = SkippedUpdates => k \in DOMAIN _updatesQueue
  /\ \A n \in DOMAIN applied : applied[n].id # NoPayload.id

\* The queue holds an update and a batch, and a loop has applied one of them.
C18_Witness ==
  /\ \E k \in DOMAIN _queue : _queue[k] = SkippedUpdate
  /\ \E k \in DOMAIN _queue : _queue[k] = SkippedUpdates
  /\ \E n \in DOMAIN applied : applied[n].key \in DOMAIN _queue

====
